---- MODULE Spec2Model ----
(***************************************************************************)
(* Model of vault-periodic-oidc-login (src/main.go).                       *)
(*                                                                         *)
(* main() parses -min-ttl, builds the Vault client, evaluates the token    *)
(* TTL with ttl(), and when the TTL does not exceed the minimum runs       *)
(* oidcLogin(): it starts `vault login`, spawns a goroutine that waits for *)
(* the process, arms two time.AfterFunc timers (SIGTERM after 1 minute,    *)
(* SIGKILL after 90 seconds), blocks on the done channel, stops both       *)
(* timers and returns the wait error.                                      *)
(*                                                                         *)
(* Timing model: the clock advances in steps of TickSeconds.  Goroutine    *)
(* scheduling latency is taken to be shorter than one clock step: the      *)
(* clock only advances while main is blocked (on the channel receive, or   *)
(* in the network lookup of the ttl() call of line 45) and no internal     *)
(* step (waiter, timer callback, due timer, SIGKILL taking effect) is      *)
(* pending.  Steps that are enabled at the same clock value interleave in  *)
(* every order.                                                            *)
(***************************************************************************)
EXTENDS Integers, Sequences, FiniteSets, TLC

\* ---------------------------------------------------------------- bounds

\* Longest -min-ttl argument, in characters.
MaxStrLen == 3
\* Largest wall-clock reading (hours) seen by time.Until.
MaxNow == 2
\* Largest expiry hour a lookup may return.
MaxExpire == 3
\* The run is observed for this many seconds after process start.
MaxClock == 120

\* Seconds per clock step.
TickSeconds == 30
\* time.AfterFunc(1*time.Minute, ...)
TermAfter == 60
\* time.AfterFunc(90*time.Second, ...)
KillAfter == 90
\* done := make(chan error, 1)
DoneCap == 1

\* ------------------------------------------------- time.ParseDuration

\* Characters a -min-ttl argument is built from.
Chars == {"-", "0", "1", "h"}

RECURSIVE StrsUpTo(_)
StrsUpTo(n) ==
    IF n = 0 THEN {<< >>}
    ELSE LET shorter == StrsUpTo(n - 1)
         IN  shorter \cup {Append(s, c) : s \in {t \in shorter : Len(t) = n - 1}, c \in Chars}

MinTTLStrs == StrsUpTo(MaxStrLen)

IsDigit(c) == c \in {"0", "1"}

DigitVal(c) == IF c = "1" THEN 1 ELSE 0

Rest(s) == SubSeq(s, 2, Len(s))

\* leadingInt: consumes the leading digits of s; <<value, remainder>>.
RECURSIVE leadingInt(_, _)
leadingInt(s, acc) ==
    IF s # << >> /\ IsDigit(Head(s))
    THEN leadingInt(Rest(s), acc * 10 + DigitVal(Head(s)))
    ELSE <<acc, s>>

\* Length of the unit: the characters up to the next digit.
RECURSIVE unitLen(_)
unitLen(s) ==
    IF s = << >> \/ IsDigit(Head(s)) THEN 0 ELSE 1 + unitLen(Rest(s))

\* unitMap restricted to the alphabet: only "h" is a unit (value in hours).
unitOk(u) == u = <<"h">>

\* The loop of ParseDuration over ([0-9]*[a-z]+)+ ; d accumulates hours.
RECURSIVE parseGroups(_, _)
parseGroups(s, d) ==
    IF s = << >> THEN [ok |-> TRUE, d |-> d]
    ELSE IF ~IsDigit(Head(s)) THEN [ok |-> FALSE, d |-> 0]
    ELSE LET li == leadingInt(s, 0)
             r  == li[2]
             n  == unitLen(r)
         IN  IF n = 0 THEN [ok |-> FALSE, d |-> 0]
             ELSE IF ~unitOk(SubSeq(r, 1, n)) THEN [ok |-> FALSE, d |-> 0]
             ELSE parseGroups(SubSeq(r, n + 1, Len(r)), d + li[1])

\* time.ParseDuration: [-+]?([0-9]*[a-z]+)+, "0" alone is zero, "" is an error.
ParseDuration(str) ==
    LET neg == str # << >> /\ Head(str) = "-"
        s   == IF neg THEN Rest(str) ELSE str
    IN  IF s = <<"0">> THEN [ok |-> TRUE, d |-> 0]
        ELSE IF s = << >> THEN [ok |-> FALSE, d |-> 0]
        ELSE LET g == parseGroups(s, 0)
             IN  IF ~g.ok THEN g
                 ELSE [ok |-> TRUE, d |-> IF neg THEN 0 - g.d ELSE g.d]

\* --------------------------------------------------------------- ttl()

\* Contents of the token file.
Tokens == {"tokA", "tokB"}

\* Expiry strings: an hour digit followed by the zone designator is well
\* formed, anything else is rejected by time.Parse.
HourChars == <<"0", "1", "2", "3", "4", "5", "6", "7", "8", "9">>
WellFormed == {<<HourChars[h + 1], "Z">> : h \in 0..MaxExpire}
ExpireStrs == WellFormed \cup {<< >>, <<"x">>, <<"1">>, <<"Z", "1">>}

\* secret.Data["expire_time"]: absent, a non-string value, or a string.
ExpireRaw ==
    {[kind |-> "missing", s |-> << >>], [kind |-> "number", s |-> << >>]}
      \cup {[kind |-> "string", s |-> s] : s \in ExpireStrs}

\* What the file system, the Vault server and the clock answer to one call.
Envs ==
    [stat   : {"notexist", "error", "ok"},
     read   : {"ok", "error"},
     data   : Tokens,
     lookup : {"ok", "error"},
     expire : ExpireRaw,
     now    : 0..MaxNow]

\* time.Parse(time.RFC3339Nano, s)
timeParse(s) ==
    IF s \in WellFormed
    THEN [ok |-> TRUE, t |-> (CHOOSE h \in 0..MaxExpire : HourChars[h + 1] = s[1])]
    ELSE [ok |-> FALSE, t |-> 0]

\* Mutant: the operands of the subtraction exchanged.
timeUntilReversed(t, now) == now - t

\* time.Until(t) with the clock reading now
timeUntil(t, now) == t - now

\* ttl(client, tokenPath): the duration returned (d), the client's token
\* after the call and the number of LookupSelf calls made, together with
\* what the call went through: the statement it left by (mode, "ok" for
\* line 93; failed for any early "return 0"), the tokenData it read ("" when
\* nothing was read) and whether the parsed expiry lay before the clock
\* reading (past).
ttlResult(d, token, lookups, mode, data, past) ==
    [d |-> d, token |-> token, lookups |-> lookups, failed |-> mode # "ok",
     mode |-> mode, data |-> data, past |-> past]

\* Mutant: the "return 0" of line 88 is missing, so the zero time.Time is used.
ttlNoReturnOnParseError(token, env) ==
    IF env.stat = "notexist" THEN ttlResult(0, token, 0, "notexist", "", FALSE)
    ELSE IF env.stat = "error" THEN ttlResult(0, token, 0, "stat", "", FALSE)
    ELSE IF env.read = "error" THEN ttlResult(0, token, 0, "read", "", FALSE)
    ELSE IF env.lookup = "error" THEN ttlResult(0, env.data, 1, "lookup", env.data, FALSE)
    ELSE IF env.expire.kind = "missing"
         THEN ttlResult(0, env.data, 1, "missing", env.data, FALSE)
    ELSE IF env.expire.kind # "string"
         THEN ttlResult(0, env.data, 1, "notstring", env.data, FALSE)
    ELSE LET p == timeParse(env.expire.s)
         IN  IF ~p.ok
             THEN ttlResult(timeUntil(p.t, env.now), env.data, 1, "parse", env.data, FALSE)
             ELSE ttlResult(timeUntil(p.t, env.now), env.data, 1, "ok", env.data,
                            p.t < env.now)

\* Mutant: a missing token file clears the client's token.
ttlClearsToken(token, env) ==
    IF env.stat = "notexist" THEN ttlResult(0, "", 0, "notexist", "", FALSE)
    ELSE IF env.stat = "error" THEN ttlResult(0, token, 0, "stat", "", FALSE)
    ELSE IF env.read = "error" THEN ttlResult(0, token, 0, "read", "", FALSE)
    ELSE IF env.lookup = "error" THEN ttlResult(0, env.data, 1, "lookup", env.data, FALSE)
    ELSE IF env.expire.kind = "missing"
         THEN ttlResult(0, env.data, 1, "missing", env.data, FALSE)
    ELSE IF env.expire.kind # "string"
         THEN ttlResult(0, env.data, 1, "notstring", env.data, FALSE)
    ELSE LET p == timeParse(env.expire.s)
         IN  IF ~p.ok
             THEN ttlResult(0, env.data, 1, "parse", env.data, FALSE)
             ELSE ttlResult(timeUntil(p.t, env.now), env.data, 1, "ok", env.data,
                            p.t < env.now)

ttl(token, env) ==
    IF env.stat = "notexist" THEN ttlResult(0, token, 0, "notexist", "", FALSE)
    ELSE IF env.stat = "error" THEN ttlResult(0, token, 0, "stat", "", FALSE)
    ELSE IF env.read = "error" THEN ttlResult(0, token, 0, "read", "", FALSE)
    ELSE IF env.lookup = "error" THEN ttlResult(0, env.data, 1, "lookup", env.data, FALSE)
    ELSE IF env.expire.kind = "missing"
         THEN ttlResult(0, env.data, 1, "missing", env.data, FALSE)
    ELSE IF env.expire.kind # "string"
         THEN ttlResult(0, env.data, 1, "notstring", env.data, FALSE)
    ELSE LET p == timeParse(env.expire.s)
         IN  IF ~p.ok
             THEN ttlResult(0, env.data, 1, "parse", env.data, FALSE)
             ELSE ttlResult(timeUntil(p.t, env.now), env.data, 1, "ok", env.data,
                            p.t < env.now)

\* Every way a ttl() call can end for a client holding token, over all
\* answers of the file system, the server and the clock.
ttlOutcomes(token) == {ttl(token, env) : env \in Envs}

\* Mutant: the comparison of line 36 reversed.
notExpiringSoonReversed(currTTL, minTTL) == currTTL < minTTL

\* Mutant: the comparison of line 36 made non-strict.
notExpiringSoonOrEqual(currTTL, minTTL) == currTTL >= minTTL

\* main.go:36  if currTTL > minTTL
notExpiringSoon(currTTL, minTTL) == currTTL > minTTL

\* ------------------------------------------------------------- state

VARIABLES
    pc,          \* position of main (inside oidcLogin from "start" to "result")
    minTTLStr,   \* -min-ttl argument
    minTTL,      \* parsed minimum TTL
    clientToken, \* token configured on the Vault client
    currTTL,     \* result of the first ttl() call
    ttl1Failed,  \* whether the first ttl() call took an early "return 0"
    ttlCalls,    \* ttl() calls made
    lookups,     \* LookupSelf calls made
    lastTtl,     \* what the latest ttl() call returned and went through
    exitCode,    \* exit status of the run, -1 while running
    exitLog,     \* the line main logged when it ended the run
    startCount,  \* cmd.Start() calls made
    proc,        \* vault login process: none, running, exited (zombie), reaped
    ignoresTerm, \* whether the process ignores SIGTERM
    procStatus,  \* how the process ended
    exitedAt,    \* clock reading when the process ended, -1 before
    sigPending,  \* signals delivered to the live process
    waiter,      \* goroutine of line 109: none, waiting, send, finished
    waitVal,     \* value cmd.Wait() returned
    done,        \* the done channel
    sent,        \* values sent on done
    received,    \* values received from done
    termTimer,   \* unset, armed, fired (callback started), ran, stopped
    killTimer,
    termAt,      \* deadline of termTimer
    killAt,      \* deadline of killTimer
    clock,       \* seconds since oidcLogin was entered
    loginErr,    \* value oidcLogin returned
    sigLog       \* Signal/Kill calls made by the timer callbacks

vars == <<pc, minTTLStr, minTTL, clientToken, currTTL, ttl1Failed, ttlCalls, lookups,
          exitCode, exitLog, startCount, proc, ignoresTerm, procStatus, sigPending,
          waiter, waitVal, done, termTimer, killTimer, termAt, killAt, clock,
          loginErr, sigLog, lastTtl, exitedAt, sent, received>>

mainVars == <<minTTLStr, minTTL, clientToken, currTTL, ttl1Failed, ttlCalls, lookups,
              exitCode, exitLog, lastTtl>>
procVars == <<proc, ignoresTerm, procStatus, sigPending, exitedAt>>
waitVars == <<waiter, waitVal, done, sent, received>>
timerVars == <<termTimer, killTimer, termAt, killAt>>

\* No ttl() call has been made yet.
NoTtl == [ttlResult(0, "", 0, "ok", "", FALSE) EXCEPT !.mode = "none"]

NoErr == [msg |-> "none", cause |-> "none"]
Nil == [msg |-> "nil", cause |-> "nil"]

Init ==
    /\ pc = "parse"
    /\ minTTLStr \in MinTTLStrs
    /\ minTTL = 0
    /\ clientToken = ""
    /\ currTTL = 0
    /\ ttl1Failed = FALSE
    /\ ttlCalls = 0
    /\ lookups = 0
    /\ lastTtl = NoTtl
    /\ exitCode = -1
    /\ exitLog = "none"
    /\ startCount = 0
    /\ proc = "none"
    /\ ignoresTerm = FALSE
    /\ procStatus = "none"
    /\ sigPending = {}
    /\ exitedAt = -1
    /\ waiter = "none"
    /\ waitVal = "none"
    /\ done = << >>
    /\ sent = 0
    /\ received = 0
    /\ termTimer = "unset"
    /\ killTimer = "unset"
    /\ termAt = 0
    /\ killAt = 0
    /\ clock = 0
    /\ loginErr = NoErr
    /\ sigLog = << >>

\* oidcLogin has returned to main.
Returned == loginErr # NoErr

\* log.Fatalf / os.Exit
Halt(code, line) ==
    /\ pc' = "halted"
    /\ exitCode' = code
    /\ exitLog' = line

\* ------------------------------------------------------------- main()

\* main.go:22-25
MainParse ==
    /\ pc = "parse"
    /\ LET r == ParseDuration(minTTLStr)
       IN  IF r.ok
           THEN /\ minTTL' = r.d
                /\ pc' = "newclient"
                /\ UNCHANGED <<exitCode, exitLog>>
           ELSE /\ Halt(1, "error parsing duration")
                /\ UNCHANGED minTTL
    /\ UNCHANGED <<minTTLStr, clientToken, currTTL, ttl1Failed, ttlCalls, lookups,
                   lastTtl, startCount,
                   procVars, waitVars, timerVars, clock, loginErr, sigLog>>

\* main.go:27-32; api.NewClient may fail (e.g. a bad environment setting)
MainNewClient ==
    /\ pc = "newclient"
    /\ \E ok \in BOOLEAN :
          IF ok
          THEN pc' = "ttl1" /\ UNCHANGED <<exitCode, exitLog>>
          ELSE Halt(1, "error creating vault client")
    /\ UNCHANGED <<minTTLStr, minTTL, clientToken, currTTL, ttl1Failed, ttlCalls, lookups,
                   lastTtl, startCount, procVars, waitVars, timerVars, clock, loginErr, sigLog>>

\* main.go:35
MainTtl1 ==
    /\ pc = "ttl1"
    /\ \E r \in ttlOutcomes(clientToken) :
          /\ currTTL' = r.d
          /\ lastTtl' = r
          /\ ttl1Failed' = r.failed
          /\ clientToken' = r.token
          /\ lookups' = lookups + r.lookups
    /\ ttlCalls' = ttlCalls + 1
    /\ pc' = "compare"
    /\ UNCHANGED <<minTTLStr, minTTL, exitCode, exitLog, startCount, procVars, waitVars,
                   timerVars, clock, loginErr, sigLog>>

\* main.go:36-39
MainCompare ==
    /\ pc = "compare"
    /\ IF notExpiringSoon(currTTL, minTTL)
       THEN Halt(0, "token ttl is not expiring soon")
       ELSE pc' = "start" /\ UNCHANGED <<exitCode, exitLog>>
    /\ UNCHANGED <<minTTLStr, minTTL, clientToken, currTTL, ttl1Failed, ttlCalls, lookups,
                   lastTtl, startCount, procVars, waitVars, timerVars, clock, loginErr, sigLog>>

\* Mutant: the login error is dropped and the run carries on.
MainCheckLoginIgnoreErr ==
    /\ pc = "checkLogin"
    /\ pc' = "ttl2"
    /\ UNCHANGED <<mainVars, startCount, procVars, waitVars, timerVars, clock,
                   loginErr, sigLog>>

\* Mutant: a failed login is attempted again.
MainCheckLoginRetry ==
    /\ pc = "checkLogin"
    /\ IF loginErr # Nil
       THEN pc' = IF startCount < 2 THEN "start" ELSE "ttl2"
       ELSE pc' = "ttl2"
    /\ UNCHANGED <<mainVars, startCount, procVars, waitVars, timerVars, clock,
                   loginErr, sigLog>>

\* main.go:41-43
MainCheckLogin ==
    /\ pc = "checkLogin"
    /\ IF loginErr # Nil
       THEN Halt(1, "error doing vault login")
       ELSE pc' = "ttl2" /\ UNCHANGED <<exitCode, exitLog>>
    /\ UNCHANGED <<minTTLStr, minTTL, clientToken, currTTL, ttl1Failed, ttlCalls, lookups,
                   lastTtl, startCount, procVars, waitVars, timerVars, clock, loginErr, sigLog>>

\* main.go:45; the value is only logged
MainTtl2 ==
    /\ pc = "ttl2"
    /\ \E r \in ttlOutcomes(clientToken) :
          /\ lastTtl' = r
          /\ clientToken' = r.token
          /\ lookups' = lookups + r.lookups
    /\ ttlCalls' = ttlCalls + 1
    /\ pc' = "exit"
    /\ UNCHANGED <<minTTLStr, minTTL, currTTL, ttl1Failed, exitCode, exitLog,
                   startCount, procVars,
                   waitVars, timerVars, clock, loginErr, sigLog>>

\* Mutant: the second ttl() result decides the exit status.
MainExitChecksTTL ==
    /\ pc = "exit"
    /\ Halt(IF lastTtl.d > minTTL THEN 0 ELSE 1, "current token ttl is now")
    /\ UNCHANGED <<minTTLStr, minTTL, clientToken, currTTL, ttl1Failed, ttlCalls, lookups,
                   lastTtl, startCount, procVars, waitVars, timerVars, clock, loginErr,
                   sigLog>>

\* main.go:46
MainExit ==
    /\ pc = "exit"
    /\ Halt(0, "current token ttl is now")
    /\ UNCHANGED <<minTTLStr, minTTL, clientToken, currTTL, ttl1Failed, ttlCalls, lookups,
                   lastTtl, startCount, procVars, waitVars, timerVars, clock, loginErr, sigLog>>

\* ---------------------------------------------------------- oidcLogin()

\* cmd.Wait(): nil for exit status 0, otherwise an *exec.ExitError.
waitError(status) ==
    IF status = "zero" THEN "nil"
    ELSE IF status = "nonzero" THEN "exit status 1"
    ELSE IF status = "sigterm" THEN "signal: terminated"
    ELSE "signal: killed"

\* Mutant: a failed signal delivery is reported as the login's failure.
loginResultSigErr(err) ==
    IF \E i \in 1..Len(sigLog) : sigLog[i].err # "nil"
    THEN [msg |-> "error during OIDC login", cause |-> "os: process already finished"]
    ELSE IF err # "nil" THEN [msg |-> "error during OIDC login", cause |-> err]
    ELSE Nil

\* main.go:132-137
loginResult(err) ==
    IF err # "nil" THEN [msg |-> "error during OIDC login", cause |-> err] ELSE Nil

\* os.Process.Signal on the handle: fails once Wait has reaped the process.
processSignal(p) == IF p = "reaped" THEN "os: process already finished" ELSE "nil"

\* Mutant: Stop() leaves a pending timer armed.
timerStopNoop(t) == t

\* Timer.Stop(): cancels a pending timer; no effect on one whose callback
\* has started, and it does not wait for that callback.
timerStop(t) == IF t = "armed" THEN "stopped" ELSE t

\* Mutant: the start error is not returned and supervision goes on.
LoginStartNoReturn ==
    /\ pc = "start"
    /\ startCount' = startCount + 1
    /\ \E ok \in BOOLEAN :
          IF ok
          THEN /\ proc' = "running"
               /\ \E ig \in BOOLEAN : ignoresTerm' = ig
          ELSE UNCHANGED <<proc, ignoresTerm>>
    /\ pc' = "spawn"
    /\ UNCHANGED <<mainVars, procStatus, sigPending, exitedAt, waitVars, timerVars, clock,
                   loginErr, sigLog>>

\* main.go:103-106
LoginStart ==
    /\ pc = "start"
    /\ startCount' = startCount + 1
    /\ \E ok \in BOOLEAN :
          IF ok
          THEN /\ proc' = "running"
               /\ \E ig \in BOOLEAN : ignoresTerm' = ig
               /\ pc' = "spawn"
               /\ UNCHANGED loginErr
          ELSE /\ loginErr' = [msg |-> "error starting vault login",
                               cause |-> "exec: not found"]
               /\ pc' = "checkLogin"
               /\ UNCHANGED <<proc, ignoresTerm>>
    /\ UNCHANGED <<mainVars, procStatus, sigPending, exitedAt, waitVars, timerVars, clock, sigLog>>

\* main.go:108-111
LoginSpawn ==
    /\ pc = "spawn"
    /\ waiter' = "waiting"
    /\ pc' = "armTerm"
    /\ UNCHANGED <<mainVars, startCount, procVars, waitVal, done, sent, received,
                   timerVars, clock,
                   loginErr, sigLog>>

\* Mutant: the graceful timer is armed with the force-kill delay.
LoginArmTermLate ==
    /\ pc = "armTerm"
    /\ termTimer' = "armed"
    /\ termAt' = clock + KillAfter
    /\ pc' = "armKill"
    /\ UNCHANGED <<mainVars, startCount, procVars, waitVars, killTimer, killAt, clock,
                   loginErr, sigLog>>

\* main.go:113
LoginArmTerm ==
    /\ pc = "armTerm"
    /\ termTimer' = "armed"
    /\ termAt' = clock + TermAfter
    /\ pc' = "armKill"
    /\ UNCHANGED <<mainVars, startCount, procVars, waitVars, killTimer, killAt, clock,
                   loginErr, sigLog>>

\* Mutant: the force-kill delay is counted from the graceful deadline.
LoginArmKillChained ==
    /\ pc = "armKill"
    /\ killTimer' = "armed"
    /\ killAt' = termAt + KillAfter
    /\ pc' = "recv"
    /\ UNCHANGED <<mainVars, startCount, procVars, waitVars, termTimer, termAt, clock,
                   loginErr, sigLog>>

\* main.go:120
LoginArmKill ==
    /\ pc = "armKill"
    /\ killTimer' = "armed"
    /\ killAt' = clock + KillAfter
    /\ pc' = "recv"
    /\ UNCHANGED <<mainVars, startCount, procVars, waitVars, termTimer, termAt, clock,
                   loginErr, sigLog>>

\* Mutant: the receive does not block on an empty channel.
LoginRecvNoWait ==
    /\ pc = "recv"
    /\ done' = IF done # << >> THEN Tail(done) ELSE done
    /\ received' = received + 1
    /\ pc' = "stopTerm"
    /\ UNCHANGED <<mainVars, startCount, procVars, waiter, waitVal, sent, timerVars, clock,
                   loginErr, sigLog>>

\* main.go:127  err = <-done
LoginRecv ==
    /\ pc = "recv"
    /\ done # << >>
    /\ done' = Tail(done)
    /\ received' = received + 1
    /\ pc' = "stopTerm"
    /\ UNCHANGED <<mainVars, startCount, procVars, waiter, waitVal, sent, timerVars, clock,
                   loginErr, sigLog>>

\* main.go:129
LoginStopTerm ==
    /\ pc = "stopTerm"
    /\ termTimer' = timerStop(termTimer)
    /\ pc' = "stopKill"
    /\ UNCHANGED <<mainVars, startCount, procVars, waitVars, killTimer, termAt, killAt,
                   clock, loginErr, sigLog>>

\* Mutant: killTimer.Stop() is left out.
LoginStopKillSkipped ==
    /\ pc = "stopKill"
    /\ pc' = "result"
    /\ UNCHANGED <<mainVars, startCount, procVars, waitVars, timerVars, clock,
                   loginErr, sigLog>>

\* main.go:130
LoginStopKill ==
    /\ pc = "stopKill"
    /\ killTimer' = timerStop(killTimer)
    /\ pc' = "result"
    /\ UNCHANGED <<mainVars, startCount, procVars, waitVars, termTimer, termAt, killAt,
                   clock, loginErr, sigLog>>

\* main.go:132-137
LoginReturn ==
    /\ pc = "result"
    /\ loginErr' = loginResult(waitVal)
    /\ pc' = "checkLogin"
    /\ UNCHANGED <<mainVars, startCount, procVars, waitVars, timerVars, clock, sigLog>>

\* main.go:110  cmd.Wait() returns once the process has exited, and reaps it
WaiterWait ==
    /\ pc # "halted"
    /\ waiter = "waiting"
    /\ proc = "exited"
    /\ proc' = "reaped"
    /\ waitVal' = waitError(procStatus)
    /\ waiter' = "send"
    /\ UNCHANGED <<pc, mainVars, startCount, ignoresTerm, procStatus, sigPending,
                   exitedAt, done, sent, received, timerVars, clock, loginErr, sigLog>>

\* main.go:110  done <- ...
WaiterSend ==
    /\ pc # "halted"
    /\ waiter = "send"
    /\ Len(done) < DoneCap
    /\ done' = Append(done, waitVal)
    /\ sent' = sent + 1
    /\ waiter' = "finished"
    /\ UNCHANGED <<pc, mainVars, startCount, procVars, waitVal, received, timerVars, clock,
                   loginErr, sigLog>>

\* The runtime starts the callback of a timer whose deadline has passed.
TermFire ==
    /\ pc # "halted"
    /\ termTimer = "armed"
    /\ clock >= termAt
    /\ termTimer' = "fired"
    /\ UNCHANGED <<pc, mainVars, startCount, procVars, waitVars, killTimer, termAt,
                   killAt, clock, loginErr, sigLog>>

KillFire ==
    /\ pc # "halted"
    /\ killTimer = "armed"
    /\ clock >= killAt
    /\ killTimer' = "fired"
    /\ UNCHANGED <<pc, mainVars, startCount, procVars, waitVars, termTimer, termAt,
                   killAt, clock, loginErr, sigLog>>

\* One Signal/Kill call on cmd.Process and its log line.
signalCall(sig) ==
    /\ sigLog' = Append(sigLog, [sig |-> sig, err |-> processSignal(proc),
                                 hit |-> proc, late |-> Returned, at |-> clock])
    /\ sigPending' = IF proc = "running" THEN sigPending \cup {sig} ELSE sigPending

\* Mutant: the graceful callback signals the process twice.
TermCallbackTwice ==
    /\ pc # "halted"
    /\ termTimer = "fired"
    /\ LET call == [sig |-> "TERM", err |-> processSignal(proc), hit |-> proc,
                    late |-> Returned, at |-> clock]
       IN  sigLog' = Append(Append(sigLog, call), call)
    /\ sigPending' = IF proc = "running" THEN sigPending \cup {"TERM"} ELSE sigPending
    /\ termTimer' = "ran"
    /\ UNCHANGED <<pc, mainVars, startCount, proc, ignoresTerm, procStatus, exitedAt,
                   waitVars, killTimer, termAt, killAt, clock, loginErr>>

\* main.go:113-118
TermCallback ==
    /\ pc # "halted"
    /\ termTimer = "fired"
    /\ signalCall("TERM")
    /\ termTimer' = "ran"
    /\ UNCHANGED <<pc, mainVars, startCount, proc, ignoresTerm, procStatus, exitedAt,
                   waitVars,
                   killTimer, termAt, killAt, clock, loginErr>>

\* Mutant: the force-kill callback also reports on the done channel.
KillCallbackSendsDone ==
    /\ pc # "halted"
    /\ killTimer = "fired"
    /\ Len(done) < DoneCap
    /\ signalCall("KILL")
    /\ done' = Append(done, "signal: killed")
    /\ sent' = sent + 1
    /\ killTimer' = "ran"
    /\ UNCHANGED <<pc, mainVars, startCount, proc, ignoresTerm, procStatus, exitedAt,
                   waiter, waitVal, received, termTimer, termAt, killAt, clock, loginErr>>

\* Mutant: the force-kill callback sends SIGTERM.
KillCallbackSendsTerm ==
    /\ pc # "halted"
    /\ killTimer = "fired"
    /\ signalCall("TERM")
    /\ killTimer' = "ran"
    /\ UNCHANGED <<pc, mainVars, startCount, proc, ignoresTerm, procStatus, exitedAt,
                   waitVars,
                   termTimer, termAt, killAt, clock, loginErr>>

\* main.go:120-125
KillCallback ==
    /\ pc # "halted"
    /\ killTimer = "fired"
    /\ signalCall("KILL")
    /\ killTimer' = "ran"
    /\ UNCHANGED <<pc, mainVars, startCount, proc, ignoresTerm, procStatus, exitedAt,
                   waitVars,
                   termTimer, termAt, killAt, clock, loginErr>>

\* ------------------------------------------------- the vault login process

\* The process ends on its own (or in a SIGTERM handler) with some status.
ProcExit ==
    /\ proc = "running"
    /\ "KILL" \notin sigPending
    /\ \E st \in {"zero", "nonzero"} : procStatus' = st
    /\ proc' = "exited"
    /\ exitedAt' = clock
    /\ UNCHANGED <<pc, mainVars, startCount, ignoresTerm, sigPending, waitVars,
                   timerVars, clock, loginErr, sigLog>>

\* SIGTERM terminates a process that does not ignore it.
ProcTerminated ==
    /\ proc = "running"
    /\ "TERM" \in sigPending
    /\ "KILL" \notin sigPending
    /\ ~ignoresTerm
    /\ procStatus' = "sigterm"
    /\ proc' = "exited"
    /\ exitedAt' = clock
    /\ UNCHANGED <<pc, mainVars, startCount, ignoresTerm, sigPending, waitVars,
                   timerVars, clock, loginErr, sigLog>>

\* SIGKILL cannot be caught or ignored.
ProcKilled ==
    /\ proc = "running"
    /\ "KILL" \in sigPending
    /\ procStatus' = "sigkill"
    /\ proc' = "exited"
    /\ exitedAt' = clock
    /\ UNCHANGED <<pc, mainVars, startCount, ignoresTerm, sigPending, waitVars,
                   timerVars, clock, loginErr, sigLog>>

\* ------------------------------------------------------------- time

\* Some step of the program or the kernel is due now.
Urgent ==
    \/ pc \notin {"recv", "ttl2"}
    \/ done # << >>
    \/ waiter = "send"
    \/ waiter = "waiting" /\ proc = "exited"
    \/ termTimer = "fired"
    \/ killTimer = "fired"
    \/ termTimer = "armed" /\ clock >= termAt
    \/ killTimer = "armed" /\ clock >= killAt
    \/ proc = "running" /\ "KILL" \in sigPending

Tick ==
    /\ ~Urgent
    /\ clock < MaxClock
    /\ clock' = clock + TickSeconds
    /\ UNCHANGED <<pc, mainVars, startCount, procVars, waitVars, timerVars, loginErr,
                   sigLog>>

\* ------------------------------------------------------ specification

Next ==
    \/ MainParse
    \/ MainNewClient
    \/ MainTtl1
    \/ MainCompare
    \/ MainCheckLogin
    \/ MainTtl2
    \/ MainExit
    \/ LoginStart
    \/ LoginSpawn
    \/ LoginArmTerm
    \/ LoginArmKill
    \/ LoginRecv
    \/ LoginStopTerm
    \/ LoginStopKill
    \/ LoginReturn
    \/ WaiterWait
    \/ WaiterSend
    \/ TermFire
    \/ KillFire
    \/ TermCallback
    \/ KillCallback
    \/ ProcExit
    \/ ProcTerminated
    \/ ProcKilled
    \/ Tick

Spec == Init /\ [][Next]_vars

\* A step of main, of the waiter goroutine, of a timer or its callback, of
\* the clock, or of the kernel carrying out a delivered SIGKILL.
Scheduled ==
    \/ MainParse \/ MainNewClient \/ MainTtl1 \/ MainCompare
    \/ MainCheckLogin \/ MainTtl2 \/ MainExit
    \/ LoginStart \/ LoginSpawn \/ LoginArmTerm \/ LoginArmKill
    \/ LoginRecv \/ LoginStopTerm \/ LoginStopKill \/ LoginReturn
    \/ WaiterWait \/ WaiterSend
    \/ TermFire \/ KillFire \/ TermCallback \/ KillCallback
    \/ ProcKilled
    \/ Tick

\* Fairness: the program, the runtime and the kernel do not stop while one
\* of their steps is possible.  The process is not obliged to exit on its
\* own or to honour SIGTERM.
Fairness == WF_vars(Scheduled)

\* Whether oidcLogin returns does not depend on the text of -min-ttl: the
\* fair behaviours are explored for a zero, a positive, a negative and an
\* unparsable argument.
LiveStrs == {<<"0">>, <<"1", "h">>, <<"-", "1", "h">>, <<"h">>}

FairInit == Init /\ minTTLStr \in LiveStrs

FairSpec == FairInit /\ [][Next]_vars /\ Fairness

\* ------------------------------------------------------------ helpers

\* cmd.Start() succeeded.
Started == proc # "none"

\* The first ttl() result has been compared with the minimum.
Evaluated == ttlCalls >= 1 /\ pc # "compare"

\* The run ended at line 38 without calling oidcLogin.
Skipped == pc = "halted" /\ startCount = 0 /\ exitLog = "token ttl is not expiring soon"

StartErr == [msg |-> "error starting vault login", cause |-> "exec: not found"]

\* Some callback's Signal/Kill call reached the live process.
Hit(sig) == \E i \in 1..Len(sigLog) : sigLog[i].sig = sig /\ sigLog[i].hit = "running"

\* ------------------------------------------------------------- claims

\* C1: once the process was started, oidcLogin has returned only if the
\* process has exited and the wait on it has completed, whatever ended it;
\* and cmd.Start() is called at most once.
C1_ReturnsOnlyAfterExit ==
    /\ startCount <= 1
    /\ (Started /\ Returned) =>
          /\ proc = "reaped"
          /\ procStatus \in {"zero", "nonzero", "sigterm", "sigkill"}
          /\ waiter = "finished"

\* C1 witness: oidcLogin returned after the forced kill ended the process.
C1_Witness == Started /\ Returned /\ procStatus = "sigkill" /\ proc = "reaped"

\* C2 (as claimed): no Signal or Kill call is made on the process handle
\* after oidcLogin has returned.
C2_NoSignalAfterReturn == \A i \in 1..Len(sigLog) : ~sigLog[i].late

\* C3: after a successful start the returned value is nil exactly when the
\* process exited with status zero, and otherwise carries the wait error of
\* the way the process ended; failed signal deliveries do not show in it.
C3_ResultIsWaitOutcome ==
    (Started /\ Returned) =>
        /\ (loginErr = Nil) <=> (procStatus = "zero")
        /\ loginErr # Nil =>
              /\ loginErr.msg = "error during OIDC login"
              /\ procStatus = "nonzero" => loginErr.cause = "exit status 1"
              /\ procStatus = "sigterm" => loginErr.cause = "signal: terminated"
              /\ procStatus = "sigkill" => loginErr.cause = "signal: killed"

\* C3 witness: a signal delivery failed (the process was already reaped)
\* before the return, and oidcLogin still returned nil.
C3_Witness ==
    /\ Started /\ Returned /\ loginErr = Nil
    /\ \E i \in 1..Len(sigLog) : sigLog[i].err # "nil" /\ ~sigLog[i].late

\* C4: once the process has been started, oidcLogin eventually returns.
C4_EventuallyReturns == Started ~> Returned

\* C4 witness: a process that ignored SIGTERM was ended by the forced kill
\* and oidcLogin returned.
C4_Witness ==
    /\ Returned /\ ignoresTerm /\ procStatus = "sigkill"
    /\ Hit("TERM") /\ Hit("KILL")

\* C5: when the process ignores SIGTERM and the Kill call finds it still
\* running, SIGTERM was sent to it before the kill, the process dies of
\* SIGKILL, and oidcLogin returns the failure "signal: killed".
C5_KillAfterTermAndFailure ==
    (ignoresTerm /\ Hit("KILL")) =>
        /\ \E i, j \in 1..Len(sigLog) :
              /\ i < j
              /\ sigLog[i].sig = "TERM" /\ sigLog[i].hit = "running"
              /\ sigLog[j].sig = "KILL" /\ sigLog[j].hit = "running"
        /\ proc # "running" => procStatus = "sigkill"
        /\ Returned =>
              loginErr = [msg |-> "error during OIDC login", cause |-> "signal: killed"]

\* C5 witness: such a run, at the return of oidcLogin.
C5_Witness == ignoresTerm /\ Hit("KILL") /\ pc = "checkLogin" /\ clock >= KillAfter

\* C6 (as claimed): a first TTL greater than or equal to the minimum ends
\* the run with status 0 and the login command is never started.
C6_FreshOrEqualSkips ==
    (Evaluated /\ currTTL >= minTTL) =>
        (pc = "halted" /\ exitCode = 0 /\ startCount = 0)

\* C6 (amended): a first TTL strictly greater than the minimum ends the run
\* with status 0 and the login command is never started.
C6_FreshSkips ==
    (Evaluated /\ currTTL > minTTL) =>
        (pc = "halted" /\ exitCode = 0 /\ startCount = 0 /\ Skipped)

\* C6 witness: a run skipped on a TTL above the minimum.
C6_Witness == Evaluated /\ currTTL > minTTL /\ ~ttl1Failed /\ exitCode = 0

C8_ExitStatus ==
    /\ pc # "halted" => exitCode = -1
    /\ pc = "halted" =>
          /\ exitCode \in {0, 1}
          /\ exitCode = 0 <=> (Skipped \/ (Returned /\ loginErr = Nil))
          /\ exitCode = 1 <=>
                \/ ~ParseDuration(minTTLStr).ok
                \/ exitLog = "error creating vault client"
                \/ (Returned /\ loginErr # Nil)
          /\ Skipped => currTTL > minTTL
          /\ (Returned /\ loginErr # Nil) => (loginErr = StartErr \/ procStatus # "zero")

\* C8 witness: a run that ended fatally after the escalation killed the login.
C8_Witness == pc = "halted" /\ exitCode = 1 /\ procStatus = "sigkill"

\* C9: cmd.Start() is called at most once in a run, exactly once when the
\* first TTL does not exceed the minimum, and after oidcLogin returned an
\* error nothing else runs: no second start and no second ttl() call.
C9_SingleAttempt ==
    /\ startCount <= 1
    /\ (pc = "halted" /\ Evaluated /\ ~(currTTL > minTTL)) => startCount = 1
    /\ (Returned /\ loginErr # Nil) =>
          /\ pc \in {"checkLogin", "halted"}
          /\ ttlCalls = 1
          /\ startCount = 1

\* C9 witness: the run ended after a failed login.
C9_Witness ==
    pc = "halted" /\ Returned /\ loginErr # Nil /\ startCount = 1 /\ ttlCalls = 1

\* C10: when cmd.Start() fails, oidcLogin has returned the start error in
\* the same step: no timer is armed, no waiter exists, nothing was sent on
\* the channel, no signal call is made and no time has passed.
C10_StartFailure ==
    (startCount >= 1 /\ ~Started) =>
        /\ loginErr = StartErr
        /\ termTimer = "unset" /\ killTimer = "unset"
        /\ waiter = "none" /\ done = << >>
        /\ sigLog = << >> /\ sigPending = {}
        /\ clock = 0

\* C10 witness: the run ended on a start failure.
C10_Witness == startCount = 1 /\ ~Started /\ pc = "halted" /\ exitCode = 1

\* ------------------------------------------------- helpers (C11..C19)

\* The process ended with status zero before the graceful deadline.
ExitedZeroEarly == procStatus = "zero" /\ exitedAt >= 0 /\ exitedAt < TermAfter

\* Signal/Kill calls of one kind made so far.
Calls(sig) == Cardinality({i \in 1..Len(sigLog) : sigLog[i].sig = sig})

\* ttl() modes that leave before the token file has been read.
BeforeRead == {"notexist", "stat", "read"}

\* Running (0), graceful signal sent (1), force kill sent (2), exited (3).
LifecycleRank ==
    IF proc \in {"exited", "reaped"} THEN 3
    ELSE IF "KILL" \in sigPending THEN 2
    ELSE IF "TERM" \in sigPending THEN 1
    ELSE 0

C12_SecondEvaluationOnlyReported ==
    /\ pc = "ttl2" =>
          Returned /\ loginErr = Nil /\ ttlCalls = 1 /\ ~(currTTL > minTTL)
    /\ ttlCalls = 2 =>
          Returned /\ loginErr = Nil /\ startCount = 1 /\ pc \in {"exit", "halted"}
    /\ (pc = "halted" /\ Returned /\ loginErr = Nil) =>
          /\ exitCode = 0
          /\ ttlCalls = 2
          /\ startCount = 1
          /\ exitLog = "current token ttl is now"

\* C12 witness: the run exited 0 although the second evaluation computed a
\* TTL that is still not above the minimum.
C12_Witness ==
    /\ pc = "halted" /\ exitCode = 0 /\ ttlCalls = 2
    /\ lastTtl.mode = "ok" /\ lastTtl.d <= minTTL

\* C13: a ttl() call that fails in any of its seven ways returns exactly
\* zero, makes at most one LookupSelf call, and never ends the run.
C13_FailuresReturnZero ==
    /\ lastTtl.failed <=>
          lastTtl.mode \in {"notexist", "stat", "read", "lookup", "missing",
                            "notstring", "parse"}
    /\ lastTtl.failed => lastTtl.d = 0
    /\ ttl1Failed => currTTL = 0
    /\ lastTtl.lookups \in {0, 1}
    /\ lookups <= ttlCalls
    /\ (pc = "halted" /\ ttlCalls >= 1 /\ ~Returned) => exitCode = 0
    /\ (pc = "halted" /\ ttlCalls = 2) => exitCode = 0

\* C13 witness: both calls of a run failed, the second on a malformed
\* expiry string while the clock reading was not zero.
C13_Witness ==
    /\ ttlCalls = 2 /\ ttl1Failed
    /\ lastTtl.mode = "parse" /\ lastTtl.d = 0
    /\ pc = "halted"

\* C14: a ttl() call on a missing path returns zero, makes no lookup and
\* leaves the client's token alone; the token changes only in a ttl() call
\* that read the file, and is then the data read.
C14_MissingFileLeavesClient ==
    [][/\ ttlCalls' = ttlCalls => clientToken' = clientToken
       /\ ttlCalls' # ttlCalls =>
             /\ lastTtl'.mode = "notexist" =>
                   /\ lastTtl'.d = 0
                   /\ lookups' = lookups
                   /\ clientToken' = clientToken
             /\ lastTtl'.mode \in BeforeRead =>
                   clientToken' = clientToken /\ lookups' = lookups
             /\ lastTtl'.mode \notin BeforeRead =>
                   /\ lastTtl'.data \in Tokens
                   /\ clientToken' = lastTtl'.data]_vars

\* C14 witness: the second call found no file and the client still holds
\* the token loaded by the first call.
C14_Witness ==
    /\ ttlCalls = 2 /\ lastTtl.mode = "notexist"
    /\ clientToken \in Tokens /\ lookups = 1

\* C15: when oidcLogin has returned after a successful start neither timer
\* is pending; Stop() on a timer that already fired changes nothing and is
\* always able to proceed.
C15_TimersDisarmedAtReturn ==
    /\ [](/\ (Started /\ Returned) =>
                /\ termTimer \in {"stopped", "fired", "ran"}
                /\ killTimer \in {"stopped", "fired", "ran"}
          /\ pc \in {"stopKill", "result"} => termTimer \in {"stopped", "fired", "ran"}
          /\ pc = "stopTerm" => ENABLED LoginStopTerm
          /\ pc = "stopKill" => ENABLED LoginStopKill)
    /\ [][/\ (pc = "stopTerm" /\ pc' = "stopKill" /\ termTimer # "armed") =>
                termTimer' = termTimer
          /\ (pc = "stopKill" /\ pc' = "result" /\ killTimer # "armed") =>
                killTimer' = killTimer]_vars

\* C15 witness: oidcLogin returned after the graceful timer had fired and
\* the force-kill timer had not.
C15_Witness ==
    Started /\ Returned /\ termTimer = "ran" /\ killTimer = "stopped"

\* C16: the force-kill deadline is KillAfter from arming, 30 seconds after
\* the graceful deadline; a force-kill timer still armed at its deadline
\* fires before the clock moves on, whatever the graceful timer did, and
\* every Kill call is made at that deadline.
C16_IndependentDeadlines ==
    /\ KillAfter - TermAfter = 30
    /\ killTimer # "unset" => killAt - termAt = KillAfter - TermAfter
    /\ (killTimer = "armed" /\ clock >= killAt) => (ENABLED KillFire /\ ~ENABLED Tick)
    /\ killTimer = "armed" => clock < killAt + TickSeconds
    /\ \A i \in 1..Len(sigLog) :
          sigLog[i].sig = "KILL" =>
              (sigLog[i].at >= killAt /\ sigLog[i].at < killAt + TickSeconds)

\* C16 witness: the kill reached the live process at the force deadline
\* while main was still waiting.
C16_Witness ==
    /\ pc = "recv" /\ killTimer = "ran" /\ Hit("KILL")
    /\ clock >= killAt /\ killAt - termAt = 30

\* C17: exactly one value crosses the done channel: the waiter sends once
\* and is never blocked, main receives once, and a step that changes the
\* channel is the waiter's send or main's receive, never a timer callback.
C17_SingleHandoff ==
    /\ [](/\ sent <= 1
          /\ received <= sent
          /\ Len(done) = sent - received
          /\ Len(done) <= DoneCap
          /\ waiter = "send" => ENABLED WaiterSend
          /\ waiter = "finished" <=> sent = 1
          /\ (Started /\ Returned) => (sent = 1 /\ received = 1 /\ done = << >>))
    /\ [][done' # done =>
             /\ sigLog' = sigLog
             /\ \/ (waiter = "send" /\ waiter' = "finished" /\ sent' = sent + 1
                      /\ received' = received)
                \/ (pc = "recv" /\ pc' = "stopTerm" /\ received' = received + 1
                      /\ sent' = sent)]_vars

\* C17 witness: the handoff completed in a run in which both callbacks ran.
C17_Witness ==
    /\ Started /\ Returned /\ sent = 1 /\ received = 1
    /\ termTimer = "ran" /\ killTimer = "ran"

\* C18: the graceful signal and the kill are each sent at most once, never
\* the graceful signal after the kill; the lifecycle rank never decreases
\* and an exited process stays exited.
C18_LifecycleForward ==
    /\ [](/\ Calls("TERM") <= 1
          /\ Calls("KILL") <= 1
          /\ Len(sigLog) <= 2
          /\ \A i, j \in 1..Len(sigLog) :
                (i < j) => ~(sigLog[i].sig = "KILL" /\ sigLog[j].sig = "TERM"))
    /\ [][/\ LifecycleRank' >= LifecycleRank
          /\ proc = "exited" => proc' \in {"exited", "reaped"}
          /\ proc = "reaped" => proc' = "reaped"]_vars

\* C18 witness: a process that went through all four lifecycle states.
C18_Witness ==
    /\ proc = "reaped" /\ procStatus = "sigkill"
    /\ Calls("TERM") = 1 /\ Calls("KILL") = 1
    /\ sigLog[1].hit = "running" /\ sigLog[2].hit = "running"

\* C19 (as claimed): a successful ttl() computation never returns a
\* negative duration.
C19_SuccessNeverNegative == lastTtl.mode = "ok" => lastTtl.d >= 0

\* C19 (amended): a successful ttl() computation whose expiry is not before
\* the clock reading never returns a negative duration.
C19_SuccessNotPastNeverNegative ==
    (lastTtl.mode = "ok" /\ ~lastTtl.past) => lastTtl.d >= 0

\* C19 witness: a successful computation with the expiry ahead of the clock.
C19_Witness == lastTtl.mode = "ok" /\ ~lastTtl.past /\ lastTtl.d > 0 /\ ttlCalls = 1

====
